---- MODULE Spec2Model ----
(***************************************************************************)
(* Model of the two analysis engines of Pages/3_STL_and_Spectrogram.py:    *)
(* stl_analysis and spectrogram_analysis, the module flags that select     *)
(* their library paths, and the dataset they read.                         *)
(*                                                                         *)
(* Numbers.  Production values are positive integers, a missing value is   *)
(* NaN, the zero used for padding is 0.  Time bins are kept in half        *)
(* samples (times2), exact for both spectral paths.  The floating point    *)
(* power values are not computed: a column of Sxx is represented by the    *)
(* samples of the segment it is the transform of (segs).                   *)
(***************************************************************************)
EXTENDS Integers, Sequences, FiniteSets, TLC

VARIABLES
    STL_AVAILABLE,      \* module flag set by the statsmodels import
    SCIPY_AVAILABLE,    \* module flag set by the scipy import
    df,                 \* the dataset, rows in storage order
    call,               \* the engine call that ran last, with its arguments
    fig,                \* first component of the pair the call returned
    error,              \* second component of the pair the call returned
    raised,             \* exception that left the call instead of a return
    filtered,           \* local `filtered` after sort_values (rows)
    series,             \* local `ts` / `production` after ffill().bfill()
    path,               \* spectral path taken: "scipy", "numpy" or None
    exit_line,          \* source line of the return or raise that ended the call
    df0,                \* the dataset as it was loaded, before any engine call
    collection,         \* documents of the MongoDB collection Database.data
    cache,              \* the lru_cache entry of load_production_data
    queries,            \* number of collection.find calls made so far
    load_calls,         \* number of load_production_data calls made so far
    df_id,              \* identity of the DataFrame object bound to df
    page_error          \* exception caught by the page's except clause

loadVars == <<collection, cache, queries, load_calls, df_id, page_error>>

vars == <<STL_AVAILABLE, SCIPY_AVAILABLE, df, call, fig, error, raised,
          filtered, series, path, exit_line, df0, loadVars>>

----------------------------------------------------------------------------
\* Bounds of the model

MaxRows == 3
MaxN == 10
MaxWin == 4
MaxPeriod == 2
MaxSeasonal == 4
MaxLoads == 3

----------------------------------------------------------------------------
\* Values

None == "None"
NaN == -1
NoFig == [kind |-> "None"]

PriceAreas == {"NO1", "NO2"}
ProductionGroups == {"hydro", "wind"}

Max(a, b) == IF a >= b THEN a ELSE b
Min(a, b) == IF a <= b THEN a ELSE b

\* Messages of the error returns
MsgLibraryUnavailable ==
    "STL decomposition is unavailable because statsmodels could not be imported; please install statsmodels in your environment (e.g. pip install statsmodels)"
MsgNoData == "No data available for selected combination"
MsgInvalidWindow == "Invalid window settings for spectrogram"
MsgNotEnough == "Not enough data for selected window/overlap settings"

----------------------------------------------------------------------------
\* Outcomes of a call: what it returned or raised, and the locals it had set

Outcome(f, e, x, rows, s, p, line) ==
    [fig |-> f, error |-> e, raised |-> x, filtered |-> rows, series |-> s,
     path |-> p, exit_line |-> line]

\* the return with the message forgotten: return None, None
ReturnError_no_message(msg, rows, s, p, line) == Outcome(NoFig, None, None, rows, s, p, line)

\* return None, "<message>"
ReturnError(msg, rows, s, p, line) == Outcome(NoFig, msg, None, rows, s, p, line)

\* return fig, None
ReturnFig(f, rows, s, p, line) == Outcome(f, None, None, rows, s, p, line)

\* an exception of the called library leaves the function
Raise(x, rows, s, p, line) == Outcome(NoFig, None, x, rows, s, p, line)

----------------------------------------------------------------------------
\* Series selection shared by both engines

\* the filter with | in place of &
select_rows_either(d, price_area, production_group) ==
    SelectSeq(d, LAMBDA r : r.priceArea = price_area \/ r.productionGroup = production_group)

\* df[(df['priceArea'] == price_area) & (df['productionGroup'] == production_group)]
select_rows(d, price_area, production_group) ==
    SelectSeq(d, LAMBDA r : r.priceArea = price_area /\ r.productionGroup = production_group)

RemoveAt(s, i) == [j \in 1..(Len(s) - 1) |-> IF j < i THEN s[j] ELSE s[j + 1]]

\* filtered.sort_values('startTime_parsed'): ascending by timestamp
RECURSIVE sort_values(_)
sort_values(rows) ==
    IF rows = <<>> THEN <<>>
    ELSE LET m == CHOOSE i \in 1..Len(rows) :
                    \A j \in 1..Len(rows) :
                        rows[i].startTime_parsed <= rows[j].startTime_parsed
         IN <<rows[m]>> \o sort_values(RemoveAt(rows, m))

\* the dataset sorted in place: df.sort_values('startTime_parsed', inplace=True)
dataset_sorted_in_place(d) == sort_values(d)

\* what an engine call leaves in the caller's df: the boolean-mask selection,
\* sort_values and ffill/bfill each return a new object and df is never
\* assigned to, so the dataset is as it was
dataset_after(d) == d

\* filtered['quantityKwh'].values
quantityKwh(rows) == [i \in 1..Len(rows) |-> rows[i].quantityKwh]

\* Series.ffill(): carry the last valid value forward
RECURSIVE ffill(_)
ffill(s) ==
    IF Len(s) <= 1 THEN s
    ELSE LET head == ffill(SubSeq(s, 1, Len(s) - 1))
         IN Append(head, IF s[Len(s)] = NaN THEN head[Len(head)] ELSE s[Len(s)])

\* Series.bfill(): carry the next valid value backward
RECURSIVE bfill(_)
bfill(s) ==
    IF Len(s) <= 1 THEN s
    ELSE LET tail == bfill(SubSeq(s, 2, Len(s)))
         IN <<IF s[1] = NaN THEN tail[1] ELSE s[1]>> \o tail

\* the fills in the other order: .bfill().ffill()
fill_gaps_bfill_first(s) == ffill(bfill(s))

\* pd.Series(filtered['quantityKwh'].values).ffill().bfill()
fill_gaps(s) == bfill(ffill(s))

----------------------------------------------------------------------------
\* Decomposition engine

\* STL(ts, period=period, seasonal=seasonal, trend=trend, robust=robust): the
\* statsmodels constructor rejects a period below 2 and a seasonal window that
\* is even or below 3 with a ValueError
STL_accepts(period, seasonal) ==
    period >= 2 /\ seasonal >= 3 /\ seasonal % 2 = 1

\* the four stacked plots: ts.index, ts.values and the fitted components,
\* which are a function of (ts, period, seasonal, robust)
stl_figure(rows, ts, price_area, production_group, period, seasonal, robust) ==
    [kind |-> "stl",
     title |-> <<production_group, price_area>>,
     index |-> [i \in 1..Len(rows) |-> rows[i].startTime_parsed],
     original |-> ts,
     period |-> period, seasonal |-> seasonal, robust |-> robust]

\* stl_analysis with the selection made before the library check
stl_analysis_filter_first(d, price_area, production_group, period, seasonal, robust) ==
    LET selected == select_rows(d, price_area, production_group) IN
    IF Len(selected) = 0
    THEN ReturnError(MsgNoData, <<>>, <<>>, None, 139)
    ELSE IF ~STL_AVAILABLE
         THEN ReturnError(MsgLibraryUnavailable, <<>>, <<>>, None, 134)
         ELSE LET rows == sort_values(selected)
                  ts == fill_gaps(quantityKwh(rows))
              IN IF ~STL_accepts(period, seasonal)
                 THEN Raise("ValueError", rows, ts, None, 143)
                 ELSE ReturnFig(stl_figure(rows, ts, price_area, production_group,
                                           period, seasonal, robust),
                                rows, ts, None, 157)

stl_analysis(d, price_area, production_group, period, seasonal, robust) ==
    IF ~STL_AVAILABLE
    THEN ReturnError(MsgLibraryUnavailable, <<>>, <<>>, None, 134)
    ELSE LET selected == select_rows(d, price_area, production_group) IN
         IF Len(selected) = 0
         THEN ReturnError(MsgNoData, <<>>, <<>>, None, 139)
         ELSE LET rows == sort_values(selected)
                  ts == fill_gaps(quantityKwh(rows))
              IN IF ~STL_accepts(period, seasonal)
                 THEN Raise("ValueError", rows, ts, None, 143)
                 ELSE ReturnFig(stl_figure(rows, ts, price_area, production_group,
                                           period, seasonal, robust),
                                rows, ts, None, 157)

----------------------------------------------------------------------------
\* Spectral engine

\* signal.spectrogram(production, fs=1.0, window='hann', nperseg=window_length,
\* noverlap=window_overlap) of scipy: nperseg below 1 is a ValueError; nperseg
\* above the input length is reduced to it; noverlap not below nperseg is a
\* ValueError; only whole segments are taken, none is padded; a time bin is
\* the centre of its segment.
signal_spectrogram(production, window_length, window_overlap) ==
    LET n == Len(production)
        nperseg == Min(window_length, n)
        step == nperseg - window_overlap
        segments == (n - window_overlap) \div step
    IN IF window_length < 1 \/ window_overlap >= nperseg
       THEN [raised |-> "ValueError"]
       ELSE [raised |-> None,
             nperseg |-> nperseg,
             frequencies |-> [k \in 1..(nperseg \div 2 + 1) |-> k - 1],
             times2 |-> [i \in 1..segments |-> nperseg + 2 * (i - 1) * step],
             segs |-> [i \in 1..segments |->
                          SubSeq(production, (i - 1) * step + 1, (i - 1) * step + nperseg)]]

\* the slice without the np.pad
segment_unpadded(production, start, nperseg) ==
    SubSeq(production, start + 1, Min(start + nperseg, Len(production)))

\* seg = production[start:start + nperseg], right-padded with zeros to nperseg
segment(production, start, nperseg) ==
    LET seg == SubSeq(production, start + 1, Min(start + nperseg, Len(production)))
    IN IF Len(seg) < nperseg
       THEN seg \o [k \in 1..(nperseg - Len(seg)) |-> 0]
       ELSE seg

\* the count without the rounding term: max(0, (n - noverlap) // step)
segment_count_floor(n, noverlap, step) == Max(0, (n - noverlap) \div step)

\* segments = max(0, (n - noverlap + step - 1) // step)
segment_count(n, noverlap, step) == Max(0, (n - noverlap + step - 1) \div step)

\* the fallback that asks for one full segment: n < nperseg is "Not enough data"
numpy_stft_full_segments(production, window_length, window_overlap) ==
    LET n == Len(production)
        nperseg == window_length
        noverlap == window_overlap
        step == Max(1, nperseg - noverlap)
    IN IF n < 1 \/ nperseg <= 0
       THEN [error |-> MsgInvalidWindow, exit_line |-> 184]
       ELSE LET segments == segment_count(n, noverlap, step) IN
            IF segments <= 0 \/ n < nperseg
            THEN [error |-> MsgNotEnough, exit_line |-> 187]
            ELSE [error |-> None,
                  nperseg |-> nperseg,
                  frequencies |-> [k \in 1..(nperseg \div 2 + 1) |-> k - 1],
                  times2 |-> [i \in 1..segments |-> 2 * ((i - 1) * step)],
                  segs |-> [i \in 1..segments |->
                               segment(production, (i - 1) * step, nperseg)]]

\* the NumPy short-time Fourier transform of the else branch: its two error
\* returns, or frequencies (numerators over nperseg), times and segments
numpy_stft(production, window_length, window_overlap) ==
    LET n == Len(production)
        nperseg == window_length
        noverlap == window_overlap
        step == Max(1, nperseg - noverlap)
    IN IF n < 1 \/ nperseg <= 0
       THEN [error |-> MsgInvalidWindow, exit_line |-> 184]
       ELSE LET segments == segment_count(n, noverlap, step) IN
            IF segments <= 0
            THEN [error |-> MsgNotEnough, exit_line |-> 187]
            ELSE [error |-> None,
                  nperseg |-> nperseg,
                  frequencies |-> [k \in 1..(nperseg \div 2 + 1) |-> k - 1],
                  times2 |-> [i \in 1..segments |-> 2 * ((i - 1) * step)],
                  segs |-> [i \in 1..segments |->
                               segment(production, (i - 1) * step, nperseg)]]

\* the pcolormesh of times, frequencies and Sxx_db, and the title
spectrogram_figure(r, price_area, production_group, window_length, window_overlap) ==
    [kind |-> "spectrogram",
     title |-> <<production_group, price_area, window_length, window_overlap>>,
     nperseg |-> r.nperseg,
     frequencies |-> r.frequencies,
     times2 |-> r.times2,
     segs |-> r.segs]

spectrogram_analysis(d, price_area, production_group, window_length, window_overlap) ==
    LET selected == select_rows(d, price_area, production_group) IN
    IF Len(selected) = 0
    THEN ReturnError(MsgNoData, <<>>, <<>>, None, 167)
    ELSE
    LET rows == sort_values(selected)
        production == fill_gaps(quantityKwh(rows))
    IN
    IF SCIPY_AVAILABLE
    THEN LET r == signal_spectrogram(production, window_length, window_overlap) IN
         IF r.raised # None
         THEN Raise(r.raised, rows, production, "scipy", 175)
         ELSE ReturnFig(spectrogram_figure(r, price_area, production_group,
                                           window_length, window_overlap),
                        rows, production, "scipy", 212)
    ELSE LET r == numpy_stft(production, window_length, window_overlap) IN
         IF r.error # None
         THEN ReturnError(r.error, rows, production, "numpy", r.exit_line)
         ELSE ReturnFig(spectrogram_figure(r, price_area, production_group,
                                           window_length, window_overlap),
                        rows, production, "numpy", 212)

----------------------------------------------------------------------------
\* Datasets the page can be given

RowKeys == {<<"NO1", "hydro">>, <<"NO1", "wind">>}

\* a document of the collection, with startTime parsed; a present quantity is
\* a positive number that differs from row to row
Row(key, t, present) ==
    [priceArea |-> key[1], productionGroup |-> key[2],
     startTime_parsed |-> t, quantityKwh |-> IF present THEN 10 + t ELSE NaN]

\* up to MaxRows rows of any key, any pattern of missing quantities, stored in
\* time order rotated by k rows
MixedDatasets ==
    UNION {{[i \in 1..n |-> Row(key[i], ((i - 1 + k) % n) + 1, present[i])] :
               key \in [1..n -> RowKeys], present \in [1..n -> BOOLEAN], k \in 0..(n - 1)} :
           n \in 1..MaxRows}

\* one complete hourly series of up to MaxN rows
LongDatasets ==
    {[i \in 1..n |-> Row(<<"NO1", "hydro">>, i, TRUE)] : n \in (MaxRows + 1)..MaxN}

Datasets == MixedDatasets \cup LongDatasets

----------------------------------------------------------------------------
\* Loading the dataset

\* a document of the collection: startTime is text for a day and an hour
Document(row) ==
    [priceArea |-> row.priceArea, productionGroup |-> row.productionGroup,
     startTime |-> <<row.startTime_parsed \div 24, row.startTime_parsed % 24>>,
     quantityKwh |-> row.quantityKwh]

Documents(d) == [i \in 1..Len(d) |-> Document(d[i])]

\* pd.to_datetime(df['startTime'], utc=True): the instant, in hours
to_datetime(startTime) == 24 * startTime[1] + startTime[2]

\* pd.DataFrame(records) with startTime_parsed added (the columns the engines read)
DataFrame(records) ==
    [i \in 1..Len(records) |->
        [priceArea |-> records[i].priceArea,
         productionGroup |-> records[i].productionGroup,
         startTime_parsed |-> to_datetime(records[i].startTime),
         quantityKwh |-> records[i].quantityKwh]]

\* the lru_cache of load_production_data before its first successful call
NoCache == [id |-> 0, rows |-> <<>>]

\* load_production_data without the decorator: every call is a miss
cache_never_hit(c) == FALSE

\* @lru_cache(maxsize=1) on a function without arguments: a hit once a call
\* has returned
cache_hit(c) == c # NoCache

\* the state after df = load_production_data() has returned the dataset d
Loaded(d) ==
    /\ collection = Documents(d)
    /\ cache = [id |-> 1, rows |-> d]
    /\ queries = 1
    /\ load_calls = 1
    /\ df_id = 1
    /\ page_error = None

NoCall == [fn |-> "none"]

\* def spectrogram_analysis(..., window_length=168, window_overlap=84)
DefaultWindowLength == 168
DefaultWindowOverlap == 84

\* a script run before a button is pressed: no engine has been called
Idle ==
    /\ call = NoCall
    /\ fig = NoFig
    /\ error = None
    /\ raised = None
    /\ filtered = <<>>
    /\ series = <<>>
    /\ path = None
    /\ exit_line = 0

Init ==
    /\ STL_AVAILABLE \in BOOLEAN
    /\ SCIPY_AVAILABLE \in BOOLEAN
    /\ df \in Datasets
    /\ df0 = df
    /\ Loaded(df)
    /\ Idle

\* the call ends: its return value or exception, and its locals, become visible
Finish(r) ==
    /\ fig' = r.fig
    /\ error' = r.error
    /\ raised' = r.raised
    /\ filtered' = r.filtered
    /\ series' = r.series
    /\ path' = r.path
    /\ exit_line' = r.exit_line

\* fig, error = stl_analysis(df, price_area, production_group, period=, seasonal=, robust=)
StlAnalysis ==
    /\ call = NoCall
    /\ \E price_area \in PriceAreas, production_group \in ProductionGroups,
          period \in 2..MaxPeriod, seasonal \in 3..MaxSeasonal, robust \in BOOLEAN :
           /\ call' = [fn |-> "stl_analysis", price_area |-> price_area,
                       production_group |-> production_group, period |-> period,
                       seasonal |-> seasonal, robust |-> robust]
           /\ Finish(stl_analysis(df, price_area, production_group, period, seasonal, robust))
           /\ df' = dataset_after(df)
           /\ UNCHANGED <<STL_AVAILABLE, SCIPY_AVAILABLE, df0, loadVars>>

\* fig, error = spectrogram_analysis(df, price_area, production_group,
\*                                   window_length=, window_overlap=)
SpectrogramAnalysis ==
    /\ call = NoCall
    /\ \E price_area \in PriceAreas, production_group \in ProductionGroups,
          window_length \in 0..MaxWin, window_overlap \in 0..MaxWin :
           /\ call' = [fn |-> "spectrogram_analysis", price_area |-> price_area,
                       production_group |-> production_group,
                       window_length |-> window_length, window_overlap |-> window_overlap,
                       overlap_given |-> TRUE]
           /\ Finish(spectrogram_analysis(df, price_area, production_group,
                                          window_length, window_overlap))
           /\ df' = dataset_after(df)
           /\ UNCHANGED <<STL_AVAILABLE, SCIPY_AVAILABLE, df0, loadVars>>

\* spectrogram_analysis(df, price_area, production_group) and
\* spectrogram_analysis(df, price_area, production_group, window_length=...):
\* the parameters left out take the defaults of the def line
SpectrogramDefaults ==
    /\ call = NoCall
    /\ \E price_area \in PriceAreas, production_group \in ProductionGroups,
          window_length \in (1..MaxWin) \cup {DefaultWindowLength} :
           /\ call' = [fn |-> "spectrogram_analysis", price_area |-> price_area,
                       production_group |-> production_group,
                       window_length |-> window_length,
                       window_overlap |-> DefaultWindowOverlap,
                       overlap_given |-> FALSE]
           /\ Finish(spectrogram_analysis(df, price_area, production_group,
                                          window_length, DefaultWindowOverlap))
           /\ df' = dataset_after(df)
           /\ UNCHANGED <<STL_AVAILABLE, SCIPY_AVAILABLE, df0, loadVars>>

\* the next interaction reruns the page script from the top: the pair and the
\* locals of the finished call are gone, the flags and the dataset stay
Rerun ==
    /\ call # NoCall
    /\ call' = NoCall
    /\ Finish(Outcome(NoFig, None, None, <<>>, <<>>, None, 0))
    /\ UNCHANGED <<STL_AVAILABLE, SCIPY_AVAILABLE, df, df0, loadVars>>

Next == StlAnalysis \/ SpectrogramAnalysis \/ SpectrogramDefaults \/ Rerun

Spec == Init /\ [][Next]_vars

----------------------------------------------------------------------------
\* The page's widgets and buttons

\* st.number_input("Seasonal Period", min_value=2, max_value=720, value=24)
PeriodMin == 2
PeriodMax == 720
PeriodDefault == 24

\* numbers typed into the period field: the ends of the range, their
\* neighbours on both sides, and the default
TypedPeriods ==
    {PeriodMin - 1, PeriodMin, PeriodMin + 1, PeriodDefault,
     PeriodMax - 1, PeriodMax, PeriodMax + 1}

\* the values st.number_input can return: a typed number outside
\* min_value..max_value is not accepted
number_input(min_value, max_value, typed) ==
    {v \in typed : min_value <= v /\ v <= max_value}

\* st.slider("Seasonal Smoothing", min_value=3, max_value=25, value=7, step=2)
SeasonalMin == 3
SeasonalMax == 25
SeasonalStep == 2

\* st.slider("Window Length (hours)", min_value=24, max_value=720, value=168, step=24)
WindowMin == 24
WindowMax == 720
WindowStep == 24

\* st.slider("Window Overlap (hours)", min_value=0, ..., step=12)
OverlapMin == 0
OverlapStep == 12

\* the values a slider can return: the step grid from min_value, and
\* max_value itself when the range is not a multiple of the step
slider_positions(min_value, max_value, step) ==
    {v \in min_value..max_value : (v - min_value) % step = 0} \cup {max_value}

\* the overlap slider reaching the whole window: max_value=int(spec_window)
overlap_max_whole_window(spec_window) == spec_window

\* max_value=int(spec_window * 0.9)
overlap_max(spec_window) == (9 * spec_window) \div 10

\* value=int(spec_window * 0.5)
overlap_default(spec_window) == spec_window \div 2

\* if stl_seasonal % 2 == 0: stl_seasonal += 1
odd_seasonal(stl_seasonal) ==
    IF stl_seasonal % 2 = 0 THEN stl_seasonal + 1 ELSE stl_seasonal

\* sorted(df['priceArea'].unique()), sorted(df['productionGroup'].unique())
price_areas(d) == {d[i].priceArea : i \in 1..Len(d)}
production_groups(d) == {d[i].productionGroup : i \in 1..Len(d)}

\* the datasets of the page runs: the complete series, and the one-row ones
PageDatasets == LongDatasets \cup {d \in MixedDatasets : Len(d) = 1}

InitPage ==
    /\ STL_AVAILABLE \in BOOLEAN
    /\ SCIPY_AVAILABLE \in BOOLEAN
    /\ df \in PageDatasets
    /\ df0 = df
    /\ Loaded(df)
    /\ Idle

\* "Run STL Analysis" pressed with the widgets of the first tab at any of
\* their values
PageStl ==
    /\ call = NoCall
    /\ \E stl_price_area \in price_areas(df), stl_prod_group \in production_groups(df),
          stl_period \in number_input(PeriodMin, PeriodMax, TypedPeriods),
          slider \in slider_positions(SeasonalMin, SeasonalMax, SeasonalStep),
          stl_robust \in BOOLEAN :
           LET stl_seasonal == odd_seasonal(slider) IN
           /\ call' = [fn |-> "stl_analysis", price_area |-> stl_price_area,
                       production_group |-> stl_prod_group, period |-> stl_period,
                       seasonal |-> stl_seasonal, robust |-> stl_robust]
           /\ Finish(stl_analysis(df, stl_price_area, stl_prod_group,
                                  stl_period, stl_seasonal, stl_robust))
           /\ df' = dataset_after(df)
           /\ UNCHANGED <<STL_AVAILABLE, SCIPY_AVAILABLE, df0, loadVars>>

\* "Create Spectrogram" pressed with the widgets of the second tab at any of
\* their values; the overlap slider is rebuilt for the window in effect, and
\* is at its default unless it was moved
PageSpectrogram ==
    /\ call = NoCall
    /\ \E spec_price_area \in price_areas(df), spec_prod_group \in production_groups(df),
          spec_window \in slider_positions(WindowMin, WindowMax, WindowStep),
          moved \in BOOLEAN :
         \E spec_overlap \in IF moved
                             THEN slider_positions(OverlapMin, overlap_max(spec_window),
                                                   OverlapStep)
                             ELSE {overlap_default(spec_window)} :
           /\ call' = [fn |-> "spectrogram_analysis", price_area |-> spec_price_area,
                       production_group |-> spec_prod_group,
                       window_length |-> spec_window, window_overlap |-> spec_overlap,
                       overlap_given |-> moved]
           /\ Finish(spectrogram_analysis(df, spec_price_area, spec_prod_group,
                                          spec_window, spec_overlap))
           /\ df' = dataset_after(df)
           /\ UNCHANGED <<STL_AVAILABLE, SCIPY_AVAILABLE, df0, loadVars>>

NextPage == PageStl \/ PageSpectrogram \/ Rerun

SpecPage == InitPage /\ [][NextPage]_vars

----------------------------------------------------------------------------
\* The page script's load, run after run in one process

\* the process has started and the script has not yet run
InitLoad ==
    /\ STL_AVAILABLE \in BOOLEAN
    /\ SCIPY_AVAILABLE \in BOOLEAN
    /\ collection \in {<<>>} \cup {Documents(d) : d \in MixedDatasets}
    /\ cache = NoCache
    /\ queries = 0
    /\ load_calls = 0
    /\ df = <<>>
    /\ df_id = 0
    /\ df0 = <<>>
    /\ page_error = None
    /\ Idle

engineVars == <<call, fig, error, raised, filtered, series, path, exit_line, df0>>

\* df = load_production_data() of a script run: a cached dataset is returned
\* as it is; otherwise the collection is queried, an empty result raises
\* ValueError (nothing is cached), any other becomes the cached DataFrame
LoadProductionData ==
    /\ load_calls < MaxLoads
    /\ load_calls' = load_calls + 1
    /\ IF cache_hit(cache)
       THEN /\ df' = cache.rows
            /\ df_id' = cache.id
            /\ page_error' = None
            /\ UNCHANGED <<cache, queries>>
       ELSE /\ queries' = queries + 1
            /\ IF collection = <<>>
               THEN /\ page_error' = "ValueError"
                    /\ UNCHANGED <<cache, df, df_id>>
               ELSE /\ cache' = [id |-> queries + 1, rows |-> DataFrame(collection)]
                    /\ df' = DataFrame(collection)
                    /\ df_id' = queries + 1
                    /\ page_error' = None
    /\ UNCHANGED <<STL_AVAILABLE, SCIPY_AVAILABLE, collection, engineVars>>

\* the notebook inserts the data the error message asks for
InsertDocuments ==
    /\ collection = <<>>
    /\ collection' \in {Documents(d) : d \in MixedDatasets}
    /\ UNCHANGED <<STL_AVAILABLE, SCIPY_AVAILABLE, df, cache, queries, load_calls,
                   df_id, page_error, engineVars>>

NextLoad == LoadProductionData \/ InsertDocuments

SpecLoad == InitLoad /\ [][NextLoad]_vars

----------------------------------------------------------------------------
\* Vocabulary of the properties

CalledStl == call.fn = "stl_analysis"
CalledSpectrogram == call.fn = "spectrogram_analysis"
Called == CalledStl \/ CalledSpectrogram

\* rows of the dataset that carry both keys of the call
Matching ==
    {i \in 1..Len(df) : df[i].priceArea = call.price_area
                         /\ df[i].productionGroup = call.production_group}

\* N: length of the selected series
SeriesLength == Cardinality(Matching)

\* the matching row that is i-th in time
RowAt(i) ==
    CHOOSE j \in Matching :
        Cardinality({k \in Matching :
                        df[k].startTime_parsed <= df[j].startTime_parsed}) = i

\* the time-sorted series before gap filling
SortedInput == [i \in 1..SeriesLength |-> df[RowAt(i)].quantityKwh]

\* the call got as far as filling the gaps of a non-empty selection
SeriesHanded == Called /\ exit_line \notin {134, 139, 167}

ReturnedError(msg) == raised = None /\ error = msg /\ fig = NoFig

Abs(a) == IF a < 0 THEN 0 - a ELSE a

\* ceil(a / b) for b >= 1
CeilDiv(a, b) ==
    CHOOSE q \in (0 - Abs(a))..Abs(a) : (q - 1) * b < a /\ a <= q * b

----------------------------------------------------------------------------
\* C1: in the NumPy fallback path, for a series of length N >= 1 and
\* 0 <= window_overlap < window_length, the number of segments computed is
\* max(0, ceil((N - V) / (L - V))): with none the call returns "Not enough
\* data ...", otherwise the figure has that many segments and time bins.
C1_SegmentCount ==
    (CalledSpectrogram /\ path = "numpy"
       /\ 0 <= call.window_overlap /\ call.window_overlap < call.window_length)
    => LET expected == Max(0, CeilDiv(SeriesLength - call.window_overlap,
                                      call.window_length - call.window_overlap))
       IN /\ SeriesLength >= 1
          /\ IF expected = 0
             THEN ReturnedError(MsgNotEnough)
             ELSE /\ fig.kind = "spectrogram"
                  /\ Len(fig.segs) = expected
                  /\ Len(fig.times2) = expected

\* N=10, L=4, V=2 in the fallback path gives 4 segments
C1_Witness ==
    /\ CalledSpectrogram /\ path = "numpy"
    /\ SeriesLength = 10 /\ call.window_length = 4 /\ call.window_overlap = 2
    /\ fig.kind = "spectrogram" /\ Len(fig.segs) = 4

----------------------------------------------------------------------------
\* C2: spectrogram_analysis on a non-empty series returns "Invalid window
\* settings for spectrogram" when window_length = 0, and "Not enough data for
\* selected window/overlap settings" when the series is shorter than
\* window_length - window_overlap, with no figure, on either spectral path.
C2_DegenerateErrors ==
    (CalledSpectrogram /\ SeriesLength >= 1)
    => /\ call.window_length = 0 => ReturnedError(MsgInvalidWindow)
       /\ SeriesLength < call.window_length - call.window_overlap
            => ReturnedError(MsgNotEnough)

----------------------------------------------------------------------------
\* C3: for the same series, window_length and window_overlap the path that
\* was not taken produces a result too, with the same number of time bins and
\* the same time-bin and frequency-bin values as the figure returned.
C3_PathsAgree ==
    (CalledSpectrogram /\ fig.kind = "spectrogram")
    => LET other == IF path = "numpy"
                    THEN signal_spectrogram(series, call.window_length, call.window_overlap)
                    ELSE numpy_stft(series, call.window_length, call.window_overlap)
           produced == IF path = "numpy" THEN other.raised = None ELSE other.error = None
       IN /\ produced
          /\ Len(other.times2) = Len(fig.times2)
          /\ other.times2 = fig.times2
          /\ other.nperseg = fig.nperseg
          /\ other.frequencies = fig.frequencies

----------------------------------------------------------------------------
\* C4: a call of stl_analysis with an even seasonal window w has the outcome
\* of the call with w + 1 on the same dataset, keys, period and robust flag.
C4_EvenSeasonalNormalized ==
    (CalledStl /\ call.seasonal % 2 = 0)
    => LET r == stl_analysis(df, call.price_area, call.production_group,
                             call.period, call.seasonal + 1, call.robust)
       IN fig = r.fig /\ error = r.error /\ raised = r.raised

----------------------------------------------------------------------------
\* C5 as stated: whenever the key pair matches no row, stl_analysis and
\* spectrogram_analysis both return "No data available for selected
\* combination" with no figure and raise nothing.
C5_NoDataBoth ==
    (Called /\ Matching = {}) => ReturnedError(MsgNoData)

\* C5: whenever the key pair matches no row, spectrogram_analysis returns
\* "No data available for selected combination" with no figure, and so does
\* stl_analysis when statsmodels is available; when it is not, stl_analysis
\* returns the LibraryUnavailable message with no figure; no call raises.
C5_NoData ==
    (Called /\ Matching = {})
    => IF CalledStl /\ ~STL_AVAILABLE
       THEN ReturnedError(MsgLibraryUnavailable)
       ELSE ReturnedError(MsgNoData)

\* stl_analysis, statsmodels available, keys of no row of a non-empty dataset
C5_Witness ==
    /\ CalledStl /\ STL_AVAILABLE /\ Matching = {} /\ Len(df) > 0
    /\ ReturnedError(MsgNoData) /\ exit_line = 139

----------------------------------------------------------------------------
\* C6: for every non-empty selection, whatever its pattern of missing values,
\* the series handed to the decomposition or the spectral computation has no
\* missing value.
C6_NoMissingAfterFill ==
    SeriesHanded => \A i \in 1..Len(series) : series[i] # NaN

----------------------------------------------------------------------------
\* C7: the handed series has the length and order of the time-sorted
\* selection; a present value stays at its position, a missing value with an
\* earlier present value becomes the nearest earlier present value, a missing
\* value of a leading gap becomes the nearest later present value.
PresentBefore(i) == {j \in 1..(i - 1) : SortedInput[j] # NaN}
PresentAfter(i) == {j \in (i + 1)..SeriesLength : SortedInput[j] # NaN}
Greatest(S) == CHOOSE m \in S : \A k \in S : k <= m
Least(S) == CHOOSE m \in S : \A k \in S : m <= k

C7_GapFill ==
    SeriesHanded
    => /\ Len(series) = SeriesLength
       /\ Len(filtered) = SeriesLength
       /\ \A i \in 1..SeriesLength :
            /\ filtered[i] = df[RowAt(i)]
            /\ SortedInput[i] # NaN => series[i] = SortedInput[i]
            /\ (SortedInput[i] = NaN /\ PresentBefore(i) # {})
                 => series[i] = SortedInput[Greatest(PresentBefore(i))]
            /\ (SortedInput[i] = NaN /\ PresentBefore(i) = {} /\ PresentAfter(i) # {})
                 => series[i] = SortedInput[Least(PresentAfter(i))]

\* a selection stored out of time order whose second value is missing between
\* two present ones
C7_Witness ==
    /\ SeriesHanded /\ SeriesLength = 3
    /\ df[1].startTime_parsed > df[Len(df)].startTime_parsed
    /\ SortedInput[1] # NaN /\ SortedInput[2] = NaN /\ SortedInput[3] # NaN
    /\ series = <<SortedInput[1], SortedInput[1], SortedInput[3]>>

----------------------------------------------------------------------------
\* C8: every return of the two engines is a pair with exactly one component:
\* a figure with error None, or no figure with a non-empty message.
C8_ExactlyOne ==
    (Called /\ raised = None)
    => \/ fig # NoFig /\ error = None
       \/ fig = NoFig /\ error # None /\ error # ""

\* the fallback path returned "Not enough data ..." and no figure
C8_Witness ==
    CalledSpectrogram /\ exit_line = 187 /\ fig = NoFig /\ error = MsgNotEnough

----------------------------------------------------------------------------
\* C9: without statsmodels stl_analysis returns the LibraryUnavailable
\* message and no figure for every input, before it selects anything from the
\* dataset; spectrogram_analysis never returns that message, and it takes the
\* NumPy path exactly when scipy is unavailable.
C9_LibraryUnavailable ==
    /\ (CalledStl /\ ~STL_AVAILABLE)
         => /\ ReturnedError(MsgLibraryUnavailable)
            /\ exit_line = 134 /\ filtered = <<>> /\ series = <<>>
    /\ CalledSpectrogram
         => /\ error # MsgLibraryUnavailable
            /\ Matching # {} => path = (IF SCIPY_AVAILABLE THEN "scipy" ELSE "numpy")

\* statsmodels missing and filter keys that match no row
C9_Witness ==
    /\ CalledStl /\ ~STL_AVAILABLE /\ Matching = {}
    /\ ReturnedError(MsgLibraryUnavailable)

----------------------------------------------------------------------------
\* C11: every failure of an engine call is returned as an error message; no
\* exception leaves stl_analysis or spectrogram_analysis.
C11_NoEscape ==
    Called => raised = None

----------------------------------------------------------------------------
\* Vocabulary of the fallback path

\* the fallback path returned a figure for 0 <= window_overlap < window_length
FallbackFigure ==
    /\ CalledSpectrogram /\ path = "numpy" /\ fig.kind = "spectrogram"
    /\ 0 <= call.window_overlap /\ call.window_overlap < call.window_length

StepOfCall == call.window_length - call.window_overlap

\* first sample index (from 0) of segment i (from 1)
StartOf(i) == (i - 1) * StepOfCall

\* segment i reaches past the end of the series
Padded(i) == StartOf(i) + call.window_length > Len(series)

----------------------------------------------------------------------------
\* C14: in the fallback path with 0 <= window_overlap < window_length,
\* segment i is the slice of the series that starts at i*step, every segment
\* has exactly window_length samples, and only the final segment can be
\* zero-padded on the right.
C14_Segments ==
    FallbackFigure
    => /\ \A i \in 1..Len(fig.segs) :
            /\ Len(fig.segs[i]) = call.window_length
            /\ \A k \in 1..call.window_length :
                  fig.segs[i][k] = IF StartOf(i) + k <= Len(series)
                                   THEN series[StartOf(i) + k]
                                   ELSE 0
       /\ \A i \in 1..(Len(fig.segs) - 1) : ~Padded(i)

\* several segments, the final one padded
C14_Witness ==
    /\ FallbackFigure /\ Len(fig.segs) >= 3
    /\ Padded(Len(fig.segs))
    /\ fig.segs[Len(fig.segs)][call.window_length] = 0

----------------------------------------------------------------------------
\* C15: a figure of spectrogram_analysis has floor(window_length/2)+1
\* frequency bins, ascending from 0 (bin k is k/window_length), one time bin
\* per segment, strictly ascending, time bin i equal to i*step, and one column
\* of window_length samples' transform per time bin.
C15_ResultShape ==
    (CalledSpectrogram /\ fig.kind = "spectrogram")
    => LET step == Max(1, call.window_length - call.window_overlap) IN
       /\ fig.nperseg = call.window_length
       /\ Len(fig.frequencies) = call.window_length \div 2 + 1
       /\ \A k \in 1..Len(fig.frequencies) : fig.frequencies[k] = k - 1
       /\ Len(fig.times2) = Len(fig.segs)
       /\ \A i \in 1..Len(fig.times2) : fig.times2[i] = 2 * ((i - 1) * step)
       /\ \A i \in 1..Len(fig.segs) : Len(fig.segs[i]) = call.window_length

----------------------------------------------------------------------------
----------------------------------------------------------------------------
\* C18: in the fallback path with 0 <= window_overlap < window_length and a
\* series longer than window_overlap, every sample of the series is in some
\* segment, and every segment, the padded final one too, holds more than
\* window_overlap samples of the series.
C18_Coverage ==
    (CalledSpectrogram /\ path = "numpy"
       /\ 0 <= call.window_overlap /\ call.window_overlap < call.window_length
       /\ SeriesLength > call.window_overlap)
    => /\ fig.kind = "spectrogram"
       /\ \A j \in 1..Len(series) :
            \E i \in 1..Len(fig.segs) :
                /\ StartOf(i) < j /\ j <= StartOf(i) + call.window_length
                /\ j - StartOf(i) <= Len(fig.segs[i])
                /\ fig.segs[i][j - StartOf(i)] = series[j]
       /\ \A i \in 1..Len(fig.segs) :
            Min(call.window_length, Len(series) - StartOf(i)) > call.window_overlap

\* the last sample of the series is only in the padded final segment
C18_Witness ==
    /\ FallbackFigure /\ Len(fig.segs) >= 2 /\ call.window_overlap >= 1
    /\ Padded(Len(fig.segs))
    /\ StartOf(Len(fig.segs) - 1) + call.window_length < Len(series)

----------------------------------------------------------------------------
----------------------------------------------------------------------------
\* C13: a spectrogram call without an explicit window_overlap uses half of
\* the window_length in effect as its overlap.
C13_DefaultHalf ==
    (CalledSpectrogram /\ ~call.overlap_given)
    => call.window_overlap = call.window_length \div 2

----------------------------------------------------------------------------
\* C16 as stated: over any sequence of load_production_data calls in one
\* process the database is queried at most once, also after a first call
\* that failed on an empty collection.
C16_QueriedOnce ==
    queries <= 1

\* C16: load_production_data caches the first dataset it returns: from then
\* on the database is not queried again and every call returns that same
\* object; a call that fails on an empty collection caches nothing, so the
\* next call queries again.
C16_CacheOnce ==
    /\ [](cache # NoCache
            => /\ cache.id = queries
               /\ df_id = cache.id /\ df = cache.rows /\ page_error = None)
    /\ [](cache = NoCache
            => /\ df_id = 0 /\ queries = load_calls
               /\ queries >= 1 => page_error = "ValueError")
    /\ [][cache # NoCache
            => cache' = cache /\ queries' = queries /\ df_id' = df_id /\ df' = df]_vars

\* a first call failed, the data was inserted, the second call queried and
\* cached, the third call returned the cached object without a query
C16_Witness ==
    /\ cache # NoCache /\ queries = 2 /\ load_calls = 3
    /\ df_id = cache.id /\ Len(df) >= 1

----------------------------------------------------------------------------
\* C19: every parameter combination the page's widgets can produce meets the
\* engines' preconditions: window_length in 24..720, 0 <= window_overlap <
\* window_length, period in 2..720, seasonal window odd and >= 3.
C19_WidgetsValid ==
    /\ CalledSpectrogram
         => /\ 24 <= call.window_length /\ call.window_length <= 720
            /\ 0 <= call.window_overlap /\ call.window_overlap < call.window_length
            /\ call.window_length - call.window_overlap >= 1
    /\ CalledStl
         => /\ 2 <= call.period /\ call.period <= 720
            /\ call.seasonal >= 3 /\ call.seasonal % 2 = 1

\* the largest window with the overlap slider at its upper end
C19_Witness ==
    /\ CalledSpectrogram /\ call.overlap_given
    /\ call.window_length = 720 /\ call.window_overlap = 648

====
